---- MODULE Spec2Model ----
(***************************************************************************)
(* httpsnippet: the request canonicalizer (HTTPSnippet constructor and     *)
(* prepare), the target registry (addTarget, addTargetClient,              *)
(* availableTargets) and the dispatcher (convert, _matchTarget).           *)
(*                                                                         *)
(* Encoding of JavaScript values.                                          *)
(*  - A plain object used as a map is the sequence of its own properties   *)
(*    in Object.keys order (insertion order; the names used here are never *)
(*    integer-like): <<[name |-> k, value |-> v], ...>>, names distinct.   *)
(*  - A property that is absent from an object is listed in the object's   *)
(*    absent set; the field then holds a placeholder that is never read. *)
(*  - A query value is the sequence of its strings: the string s is <<s>>, *)
(*    the array [s1, ..., sn] that querystring.parse builds for a repeated *)
(*    key (n >= 2) is <<s1, ..., sn>>.                                     *)
(*  - A header value or a body text is the sequence of the pieces it is    *)
(*    concatenated from: "" is <<>>, s + t is s \o t.                      *)
(*  - A URL is [base |-> everything before the query, search |-> the       *)
(*    name=value pairs of its query component, in order].                  *)
(***************************************************************************)
EXTENDS Integers, Sequences, FiniteSets, TLC

VARIABLES targets, data, isHAR, requests, pc, idx, outcome, previous

vars == <<targets, data, isHAR, requests, pc, idx, outcome, previous>>

(***************************************************************************)
(* Bounds of the model.                                                    *)
(***************************************************************************)
MaxHeaders == 3
MaxCookies == 3
MaxQuery == 2
MaxEntries == 2

SeqUpTo(S, n) == UNION {[1..k -> S] : k \in 0..n}

(***************************************************************************)
(* Plain objects as ordered maps.                                          *)
(***************************************************************************)
Has(obj, k) == \E i \in DOMAIN obj : obj[i].name = k

IndexOf(obj, k) == CHOOSE i \in DOMAIN obj : obj[i].name = k

Get(obj, k) == obj[IndexOf(obj, k)].value

\* obj[k] = v
Put(obj, k, v) ==
  IF Has(obj, k)
    THEN [obj EXCEPT ![IndexOf(obj, k)] = [name |-> k, value |-> v]]
    ELSE Append(obj, [name |-> k, value |-> v])

Keys(obj) == [i \in DOMAIN obj |-> obj[i].name]

RECURSIVE AssignFrom(_, _, _)
AssignFrom(target, source, i) ==
  IF i > Len(source) THEN target
  ELSE AssignFrom(Put(target, source[i].name, source[i].value), source, i + 1)

\* Object.assign(target, source)
ObjectAssign(target, source) == AssignFrom(target, source, 1)

(***************************************************************************)
(* Strings.  String.prototype.toLowerCase on the header names of the       *)
(* model; every other name of the model is already lower case.             *)
(***************************************************************************)
toLowerCase(s) ==
  CASE s = "Accept" -> "accept"
    [] s = "Content-Type" -> "content-type"
    [] OTHER -> s

\* encodeURIComponent on the cookie names and values of the model
encodeURIComponent(s) ==
  CASE s = "a b" -> "a%20b"
    [] OTHER -> s

(***************************************************************************)
(* helpers/headers                                                         *)
(***************************************************************************)
\* Object.keys(headers).find(k => k.toLowerCase() === name.toLowerCase())
FindKey(headers, name) ==
  LET hits == {i \in DOMAIN headers :
                 toLowerCase(headers[i].name) = toLowerCase(name)}
  IN  IF hits = {} THEN [found |-> FALSE, key |-> ""]
      ELSE [found |-> TRUE,
            key |-> headers[CHOOSE i \in hits : \A j \in hits : i <= j].name]

hasHeader(headers, name) == FindKey(headers, name).found

getHeaderName(headers, name) == FindKey(headers, name)

getHeader(headers, name) ==
  LET k == FindKey(headers, name)
  IN  IF k.found THEN [found |-> TRUE, value |-> Get(headers, k.key)]
      ELSE [found |-> FALSE, value |-> ""]

(***************************************************************************)
(* helpers/reducer: later pairs overwrite earlier ones of the same name.   *)
(***************************************************************************)
reducer(obj, pair) == Put(obj, pair.name, <<pair.value>>)

RECURSIVE ReduceFrom(_, _, _)
ReduceFrom(pairs, i, acc) ==
  IF i > Len(pairs) THEN acc
  ELSE ReduceFrom(pairs, i + 1, reducer(acc, pairs[i]))

\* pairs.reduce(reducer, {})
Reduce(pairs) == ReduceFrom(pairs, 1, <<>>)

(***************************************************************************)
(* querystring                                                             *)
(***************************************************************************)
RECURSIVE QsParseFrom(_, _, _)
QsParseFrom(pairs, i, acc) ==
  IF i > Len(pairs) THEN acc
  ELSE LET k == pairs[i].name
           v == pairs[i].value
       IN  QsParseFrom(pairs, i + 1,
             IF Has(acc, k) THEN Put(acc, k, Append(Get(acc, k), v))
             ELSE Put(acc, k, <<v>>))

\* the query object url.parse(url, true) builds from the URL's search
QsParse(pairs) == QsParseFrom(pairs, 1, <<>>)

RECURSIVE QsStringifyFrom(_, _)
QsStringifyFrom(obj, i) ==
  IF i > Len(obj) THEN <<>>
  ELSE [j \in 1..Len(obj[i].value) |->
          [name |-> obj[i].name, value |-> obj[i].value[j]]]
       \o QsStringifyFrom(obj, i + 1)

\* qs.stringify(obj), as the name=value pairs joined by "&"
QsStringify(obj) == QsStringifyFrom(obj, 1)

RECURSIVE PairsText(_, _)
PairsText(pairs, i) ==
  IF i > Len(pairs) THEN <<>>
  ELSE (IF i > 1 THEN <<"&">> ELSE <<>>)
       \o <<pairs[i].name, "=", pairs[i].value>> \o PairsText(pairs, i + 1)

(***************************************************************************)
(* HTTPSnippet.prepare                                                     *)
(***************************************************************************)
\* request.httpVersion.match(/^HTTP\/2/), on the versions of the model
MatchesHttp2(httpVersion) == httpVersion \in {"HTTP/2", "HTTP/2.0"}

\* the key the headers fold stores a header under
HeaderKey(httpVersion, name) ==
  IF MatchesHttp2(httpVersion) THEN toLowerCase(name) ELSE name

RECURSIVE HeadersFrom(_, _, _, _)
HeadersFrom(headers, httpVersion, i, acc) ==
  IF i > Len(headers) THEN acc
  ELSE HeadersFrom(headers, httpVersion, i + 1,
         Put(acc, HeaderKey(httpVersion, headers[i].name), headers[i].value))

\* a fold that keeps the first value stored under a key
HeadersFoldFirstWins(headers, httpVersion) ==
  LET Keep(acc, h) ==
        IF Has(acc, HeaderKey(httpVersion, h.name)) THEN acc
        ELSE Put(acc, HeaderKey(httpVersion, h.name), h.value)
      F[i \in 0..Len(headers)] ==
        IF i = 0 THEN <<>> ELSE Keep(F[i - 1], headers[i])
  IN  F[Len(headers)]

\* request.headers.reduce(..., {})
HeadersFold(headers, httpVersion) == HeadersFrom(headers, httpVersion, 1, <<>>)

RECURSIVE CookiesFrom(_, _, _)
CookiesFrom(cookies, i, acc) ==
  IF i < 1 THEN acc
  ELSE CookiesFrom(cookies, i - 1, Put(acc, cookies[i].name, cookies[i].value))

\* reduce in place of reduceRight
CookiesFoldLeft(cookies) ==
  LET F[i \in 0..Len(cookies)] ==
        IF i = 0 THEN <<>>
        ELSE Put(F[i - 1], cookies[i].name, cookies[i].value)
  IN  F[Len(cookies)]

\* request.cookies.reduceRight(..., {})
CookiesFold(cookies) == CookiesFrom(cookies, Len(cookies), <<>>)

RECURSIVE CookieHeader(_, _)
\* cookies.map(encode name = encode value).join("; ")
CookieHeader(cookies, i) ==
  IF i > Len(cookies) THEN <<>>
  ELSE (IF i > 1 THEN <<"; ">> ELSE <<>>)
       \o <<encodeURIComponent(cookies[i].name), "=",
            encodeURIComponent(cookies[i].value)>>
       \o CookieHeader(cookies, i + 1)

boundary == "---011000010111000001101001"

MultipartTypes ==
  {"multipart/mixed", "multipart/related", "multipart/form-data",
   "multipart/alternative"}

JsonTypes ==
  {"text/json", "text/x-json", "application/json", "application/x-json"}

\* whether JSON.parse accepts the text, on the texts of the model
JsonParses(text) == text = <<"{\"a\":1}">>

RECURSIVE MultipartText(_, _)
\* the chunks the form yields: one part per param, then the closing boundary
MultipartText(params, i) ==
  IF i > Len(params) THEN <<"--", boundary, "--">>
  ELSE <<"--", boundary, params[i].name, params[i].value>>
       \o MultipartText(params, i + 1)

\* the multipart branch of the switch on postData.mimeType
PrepareMultipart(pd, headersObj) ==
  IF "params" \in pd.absent
    THEN [postData |-> [pd EXCEPT !.text = <<>>,
                                   !.absent = pd.absent \ {"text"},
                                   !.mimeType = "multipart/form-data"],
          headersObj |-> headersObj]
    ELSE LET contentTypeHeader ==
               IF hasHeader(headersObj, "content-type")
                 THEN getHeaderName(headersObj, "content-type").key
                 ELSE "content-type"
         IN  [postData |-> [pd EXCEPT !.text = MultipartText(pd.params, 1),
                                       !.absent = pd.absent \ {"text", "boundary"},
                                       !.mimeType = "multipart/form-data",
                                       !.boundary = boundary],
              headersObj |-> Put(headersObj, contentTypeHeader,
                                 <<"multipart/form-data; boundary=", boundary>>)]

\* the application/x-www-form-urlencoded branch
PrepareUrlEncoded(pd) ==
  IF "params" \in pd.absent
    THEN [pd EXCEPT !.text = <<>>, !.absent = pd.absent \ {"text"}]
    ELSE LET paramsObj == Reduce(pd.params)
         IN  [pd EXCEPT !.paramsObj = [defined |-> TRUE, obj |-> paramsObj],
                        !.text = PairsText(QsStringify(paramsObj), 1),
                        !.absent = pd.absent \ {"text"}]

\* the JSON branch
PrepareJson(pd) ==
  IF "text" \in pd.absent \/ pd.text = <<>>
    THEN [pd EXCEPT !.mimeType = "application/json"]
    ELSE IF JsonParses(pd.text)
      THEN [pd EXCEPT !.mimeType = "application/json",
                      !.jsonObj = [parsed |-> TRUE, of |-> pd.text]]
      ELSE [pd EXCEPT !.mimeType = "text/plain"]

\* the merge with the operands exchanged: explicit pairs win
MergeQueryExplicitWins(queryObj, uriQuery) == ObjectAssign(uriQuery, queryObj)

\* request.queryObj = Object.assign(request.queryObj, request.uriObj.query)
MergeQuery(queryObj, uriQuery) == ObjectAssign(queryObj, uriQuery)

\* prepare(request), for a request the constructor has defaulted
prepare(request) ==
  LET pd0 == [request.postData EXCEPT
                !.jsonObj = [parsed |-> FALSE, of |-> <<>>],
                !.paramsObj = [defined |-> FALSE, obj |-> <<>>]]
      queryObj0 == IF Len(request.queryString) > 0
                     THEN Reduce(request.queryString) ELSE <<>>
      headersObj0 == IF Len(request.headers) > 0
                       THEN HeadersFold(request.headers, request.httpVersion)
                       ELSE <<>>
      cookiesObj == IF Len(request.cookies) > 0
                      THEN CookiesFold(request.cookies) ELSE <<>>
      allHeaders0 == IF Len(request.cookies) > 0
                       THEN <<[name |-> "cookie",
                               value |-> CookieHeader(request.cookies, 1)]>>
                       ELSE <<>>
      body == CASE pd0.mimeType \in MultipartTypes ->
                     PrepareMultipart(pd0, headersObj0)
                [] pd0.mimeType = "application/x-www-form-urlencoded" ->
                     [postData |-> PrepareUrlEncoded(pd0),
                      headersObj |-> headersObj0]
                [] pd0.mimeType \in JsonTypes ->
                     [postData |-> PrepareJson(pd0), headersObj |-> headersObj0]
                [] OTHER -> [postData |-> pd0, headersObj |-> headersObj0]
      allHeaders == ObjectAssign(allHeaders0, body.headersObj)
      uriQuery == QsParse(request.url.search)
      queryObj == MergeQuery(queryObj0, uriQuery)
  IN  [request EXCEPT
         !.prepared = TRUE,
         !.postData = body.postData,
         !.queryObj = queryObj,
         !.headersObj = body.headersObj,
         !.cookiesObj = cookiesObj,
         !.allHeaders = allHeaders,
         !.url = [base |-> request.url.base, search |-> <<>>],
         !.fullUrl = [base |-> request.url.base, search |-> QsStringify(queryObj)]]

(***************************************************************************)
(* HTTPSnippet constructor                                                 *)
(***************************************************************************)
\* {} as PostData
EmptyPostData ==
  [absent |-> {"mimeType", "text", "params", "boundary"},
   mimeType |-> "", text |-> <<>>, params |-> <<>>, boundary |-> "",
   jsonObj |-> [parsed |-> FALSE, of |-> <<>>],
   paramsObj |-> [defined |-> FALSE, obj |-> <<>>]]

\* the optional properties the loop body adds before validation (the sizes
\* it zeroes, bodySize, headersSize and postData.size, are read by nothing
\* modelled here and are not kept)
Defaulted(request) ==
  LET a == request.absent
      pd == IF "postData" \in a THEN EmptyPostData ELSE request.postData
  IN  [request EXCEPT
         !.absent = {},
         !.httpVersion = IF "httpVersion" \in a \/ @ = "" THEN "HTTP/1.1" ELSE @,
         !.queryString = IF "queryString" \in a THEN <<>> ELSE @,
         !.headers = IF "headers" \in a THEN <<>> ELSE @,
         !.cookies = IF "cookies" \in a THEN <<>> ELSE @,
         !.postData =
            IF "mimeType" \in pd.absent \/ pd.mimeType = ""
              THEN [pd EXCEPT !.mimeType = "application/octet-stream",
                              !.absent = pd.absent \ {"mimeType"}]
              ELSE pd]

\* what validate.request hands to its callback: (err, valid).  The
\* validator's verdict on a request is the request's conforms; it reports
\* an error exactly when the request is not valid.
ValidateRequest(request) ==
  [err |-> IF request.conforms THEN "null" ELSE "HARError",
   valid |-> request.conforms]

\* a callback that lets an invalid request through
CallbackNeverThrows(report) == FALSE

\* the callback's test: if (!valid) throw err
CallbackThrows(report) == ~report.valid

\* what the caller's object holds after the constructor has worked on the
\* request now made from before: a HAR entry's request is the object
\* worked on; a single request is copied by Object.assign({}, data), so
\* only the objects it shares with the copy (postData) change.
WriteBack(before, now, har) ==
  IF har THEN now
  ELSE IF "postData" \in before.absent THEN before
  ELSE [before EXCEPT !.postData = now.postData]

(***************************************************************************)
(* Target registry.  A target object is                                    *)
(*   [hasInfo, info |-> [fields, key, title, extname, default], props]     *)
(* where fields are the properties its info object has and props its   *)
(* own properties other than info, as an ordered map from property name to *)
(* client.  A client is [isFn, fnId, hasInfo, info |-> [fields, key,       *)
(* title]]: isFn says whether typeof gives "function", fnId names the      *)
(* function.  The registry targets is an ordered map from key to target. *)
(***************************************************************************)
\* Object.keys(target).length
OwnKeyCount(target) == (IF target.hasInfo THEN 1 ELSE 0) + Len(target.props)

\* target.hasOwnProperty(name)
HasOwn(target, name) ==
  IF name = "info" THEN target.hasInfo ELSE Has(target.props, name)

\* the error addTarget throws, "" when it throws none
AddTargetError(registry, target) ==
  IF ~target.hasInfo
    THEN "The supplied custom target must contain an info object."
  ELSE IF {"key", "title", "extname", "default"} \ target.info.fields # {}
    THEN "The supplied custom target must have an info object with a key, title, extname, and default property."
  ELSE IF Has(registry, target.info.key)
    THEN "The supplied custom target already exists."
  ELSE IF OwnKeyCount(target) = 1
    THEN "A custom target must have a client defined on it."
  ELSE ""

\* the assignment made before the duplicate and no-client checks
addTargetAssignFirst(registry, target) ==
  IF ~target.hasInfo \/ "key" \notin target.info.fields THEN registry
  ELSE Put(registry, target.info.key, target)

\* the registry after addTarget(target)
addTarget(registry, target) ==
  IF AddTargetError(registry, target) # "" THEN registry
  ELSE Put(registry, target.info.key, target)

\* the error addTargetClient throws, "" when it throws none
AddTargetClientError(registry, target, client) ==
  IF ~Has(registry, target)
    THEN "Sorry, but no target exists to add clients to."
  ELSE IF ~client.hasInfo
    THEN "The supplied custom target client must contain an info object."
  ELSE IF {"key", "title"} \ client.info.fields # {}
    THEN "The supplied custom target client must have an info object with a key and title property."
  ELSE IF HasOwn(Get(registry, target), client.info.key)
    THEN "The supplied custom target client already exists, please use a different key"
  ELSE ""

\* the registry after addTargetClient(target, client)
addTargetClient(registry, target, client) ==
  IF AddTargetClientError(registry, target, client) # "" THEN registry
  ELSE LET t == Get(registry, target)
       IN  Put(registry, target,
               [t EXCEPT !.props = Put(t.props, client.info.key, client)])

\* the filter of availableTargets: !~["info", "index"].indexOf(prop)
ClientProp(prop) == prop \notin {"info", "index"}

RECURSIVE ClientInfos(_, _)
\* the clients list: the info of every property that passes the filter,
\* [listed |-> FALSE] standing for the undefined of a client without info
ClientInfos(props, i) ==
  IF i > Len(props) THEN <<>>
  ELSE (IF ClientProp(props[i].name)
          THEN <<IF props[i].value.hasInfo
                   THEN [listed |-> TRUE, info |-> props[i].value.info]
                   ELSE [listed |-> FALSE, info |-> props[i].value.info]>>
          ELSE <<>>)
       \o ClientInfos(props, i + 1)

\* availableTargets()
availableTargets(registry) ==
  [i \in DOMAIN registry |->
     LET t == registry[i].value
         clients == ClientInfos(t.props, 1)
     IN  [info |-> t.info, hasClients |-> Len(clients) > 0, clients |-> clients]]

\* extname(target)
extname(registry, target) ==
  IF Has(registry, target) THEN Get(registry, target).info.extname ELSE ""

(***************************************************************************)
(* Dispatcher.  An argument of convert is [type, s]: undefined, a string   *)
(* s, or an options object labelled s.                                     *)
(***************************************************************************)
Undefined == [type |-> "undefined", s |-> ""]

Str(s) == [type |-> "string", s |-> s]

Obj(s) == [type |-> "object", s |-> s]

\* JavaScript truthiness of an argument
Truthy(arg) == arg.type = "object" \/ (arg.type = "string" /\ arg.s # "")

NoClient ==
  [isFn |-> FALSE, fnId |-> "", hasInfo |-> FALSE,
   info |-> [fields |-> {}, key |-> "", title |-> ""]]

\* targets[target][name]: undefined, the info object, or a client
Lookup(target, name) ==
  IF name = "info"
    THEN [kind |-> IF target.hasInfo THEN "info" ELSE "undefined",
          client |-> NoClient]
  ELSE IF Has(target.props, name)
    THEN [kind |-> "client", client |-> Get(target.props, name)]
  ELSE [kind |-> "undefined", client |-> NoClient]

\* typeof v === "function"
IsFunction(v) == v.kind = "client" /\ v.client.isFn

\* _matchTarget(target, client)
matchTarget(registry, target, client) ==
  IF ~Has(registry, target) THEN [kind |-> "false", client |-> NoClient]
  ELSE LET t == Get(registry, target)
       IN  IF client.type = "string" /\ IsFunction(Lookup(t, client.s))
             THEN Lookup(t, client.s)
             ELSE Lookup(t, t.info.default)

\* the options convert hands to the generator
ResolveOpts(client, opts) ==
  IF ~Truthy(opts) /\ Truthy(client) THEN client ELSE opts

\* func(request, opts): the generator's result, a term over its inputs
Call(fn, request, opts) == [fn |-> fn.fnId, request |-> request, opts |-> opts]

\* the results never unwrapped
UnwrapNever(results) == [kind |-> "list", items |-> results]

\* results.length === 1 ? results[0] : results
Unwrap(results) ==
  IF Len(results) = 1 THEN [kind |-> "bare", items |-> results]
  ELSE [kind |-> "list", items |-> results]

\* convert(target, client, opts) on the batch
convert(registry, batch, target, client, opts) ==
  LET o == ResolveOpts(client, opts)
      func == matchTarget(registry, target, client)
  IN  IF func.kind \in {"false", "undefined"}
        THEN [kind |-> "return", error |-> "",
              value |-> [kind |-> "false", items |-> <<>>]]
      ELSE IF ~IsFunction(func) /\ Len(batch) > 0
        THEN [kind |-> "raise", error |-> "TypeError: func is not a function",
              value |-> [kind |-> "none", items |-> <<>>]]
      ELSE [kind |-> "return", error |-> "",
            value |-> Unwrap([i \in DOMAIN batch |->
                                Call(func.client, batch[i], o)])]

(***************************************************************************)
(* Inputs.                                                                 *)
(***************************************************************************)
Pair(n, v) == [name |-> n, value |-> v]

\* a postData object with the given properties
PostData(mimeType, text, params, absent) ==
  [EmptyPostData EXCEPT !.absent = absent \cup {"boundary"},
                        !.mimeType = mimeType, !.text = text, !.params = params]

\* a request object as the caller hands it over, before prepare has added
\* its utility properties (prepared = FALSE: they are absent)
Raw(absent, conforms, httpVersion, url, queryString, headers, cookies, postData) ==
  [absent |-> absent, conforms |-> conforms, httpVersion |-> httpVersion,
   url |-> url, queryString |-> queryString, headers |-> headers,
   cookies |-> cookies, postData |-> postData,
   prepared |-> FALSE, queryObj |-> <<>>, headersObj |-> <<>>,
   cookiesObj |-> <<>>, allHeaders |-> <<>>,
   fullUrl |-> [base |-> "", search |-> <<>>]]

Url(search) == [base |-> "http://x.test/p", search |-> search]

FormParams == <<Pair("a", "1"), Pair("a", "2")>>

\* the requests of the batches of Spec
SampleRequests ==
  { Raw({"postData", "cookies"}, TRUE, "HTTP/1.1", Url(<<Pair("a", "2")>>),
        <<Pair("a", "1")>>, <<Pair("Accept", <<"v1">>)>>, <<>>, EmptyPostData),
    Raw({"httpVersion", "queryString", "headers", "cookies"}, FALSE,
        "", Url(<<>>), <<>>, <<>>, <<>>,
        PostData("", <<"old">>, FormParams, {"mimeType"})),
    Raw({}, TRUE, "HTTP/2", Url(<<>>), <<>>,
        <<Pair("Content-Type", <<"v1">>)>>, <<Pair("c1", "a b")>>,
        PostData("multipart/mixed", <<"old">>, FormParams, {})) }

\* the caller's inputs of Spec: an archive of up to MaxEntries entries, or
\* a single request
Batches ==
  {[har |-> TRUE, entries |-> e] : e \in SeqUpTo(SampleRequests, MaxEntries)}
  \cup {[har |-> FALSE, entries |-> <<r>>] : r \in SampleRequests}

Fn(id, key) ==
  [isFn |-> TRUE, fnId |-> id, hasInfo |-> TRUE,
   info |-> [fields |-> {"key", "title"}, key |-> key, title |-> key]]

Info(fields, key, default) ==
  [fields |-> fields, key |-> key, title |-> key, extname |-> ".x",
   default |-> default]

AllInfo == {"key", "title", "extname", "default"}

Target(hasInfo, info, props) == [hasInfo |-> hasInfo, info |-> info, props |-> props]

\* the built-in targets the registry starts with
BuiltinTargets ==
  <<Pair("shell", Target(TRUE, Info(AllInfo, "shell", "curl"),
                         <<Pair("curl", Fn("shell.curl", "curl")),
                           Pair("wget", Fn("shell.wget", "wget"))>>))>>

\* the target objects addTarget is called with
TargetInputs ==
  { Target(FALSE, Info({}, "", ""), <<Pair("a", Fn("t1.a", "a"))>>),
    Target(TRUE, Info(AllInfo \ {"default"}, "t1", ""),
           <<Pair("a", Fn("t1.a", "a"))>>),
    Target(TRUE, Info(AllInfo, "shell", "a"), <<Pair("a", Fn("t1.a", "a"))>>),
    Target(TRUE, Info(AllInfo, "t1", "a"), <<>>),
    Target(TRUE, Info(AllInfo, "t1", "a"), <<Pair("a", Fn("t1.a", "a"))>>),
    Target(TRUE, Info(AllInfo, "t1", "zz"), <<Pair("a", Fn("t1.a", "a"))>>),
    Target(TRUE, Info(AllInfo, "t1", "info"), <<Pair("a", Fn("t1.a", "a"))>>),
    Target(TRUE, Info(AllInfo, "t1", "a"),
           <<Pair("a", Fn("t1.x", "x")), Pair("b", Fn("t1.y", "x"))>>),
    Target(TRUE, Info(AllInfo, "t1", "a"),
           <<Pair("a", Fn("t1.i", "index"))>>) }

\* the clients addTargetClient is called with
ClientInputs ==
  { Fn("new.a", "a"), Fn("new.index", "index"), Fn("new.info", "info"),
    [Fn("new.b", "b") EXCEPT !.hasInfo = FALSE],
    [Fn("new.b", "b") EXCEPT !.info.fields = {"key"}] }

\* the requests whose canonicalization PrepareSpec explores: header
\* sequences under each httpVersion and body kind, cookie sequences, and
\* explicit query strings against URL queries
HeaderPairs ==
  {Pair(n, v) : n \in {"Accept", "Content-Type", "content-type"},
                v \in {<<"v1">>, <<"v2">>}}

CookiePairs == {Pair(n, v) : n \in {"c1", "c2"}, v \in {"x", "a b"}}

QueryPairs == {Pair(n, v) : n \in {"a", "b"}, v \in {"1", "2"}}

BodyInputs ==
  { [absent |-> TRUE, postData |-> EmptyPostData],
    [absent |-> FALSE,
     postData |-> PostData("multipart/related", <<>>, FormParams, {"text"})],
    [absent |-> FALSE,
     postData |-> PostData("application/json", <<"{bad json">>, <<>>, {"params"})] }

HeaderInputs ==
  {Raw((IF v = "" THEN {"httpVersion"} ELSE {})
         \cup (IF b.absent THEN {"postData"} ELSE {}) \cup {"cookies", "queryString"},
       TRUE, v, Url(<<>>), <<>>, hs, <<>>, b.postData) :
     v \in {"", "HTTP/1.1", "HTTP/2"}, b \in BodyInputs,
     hs \in SeqUpTo(HeaderPairs, MaxHeaders)}

CookieInputs ==
  {Raw({"httpVersion", "postData"}, conforms, "", Url(<<>>), <<>>, <<>>, cs,
       EmptyPostData) :
     conforms \in BOOLEAN, cs \in SeqUpTo(CookiePairs, MaxCookies)}

QueryInputs ==
  {Raw({"postData"}, TRUE, "HTTP/1.1", Url(u), q, <<>>, <<>>, EmptyPostData) :
     u \in SeqUpTo(QueryPairs, MaxQuery), q \in SeqUpTo(QueryPairs, MaxQuery)}

PrepareInputs == HeaderInputs \cup CookieInputs \cup QueryInputs

TargetArgs == {"shell", "t1", "nope"}

ClientArgs == {Undefined, Str("curl"), Str("a"), Str("info"), Obj("options")}

OptsArgs == {Undefined, Obj("options2")}

(***************************************************************************)
(* State machine.                                                          *)
(***************************************************************************)
NoValue == [kind |-> "none", items |-> <<>>]

NoArgs == [target |-> "", client |-> Undefined, opts |-> Undefined]

Outcome(op, kind, error, args, value) ==
  [op |-> op, kind |-> kind, error |-> error, args |-> args, value |-> value]

\* previous: the batch an earlier new HTTPSnippet(data) on the same data
\* object returned with, as it was when that constructor returned
NoPrevious == [returned |-> FALSE, requests |-> <<>>]

Init ==
  /\ targets = BuiltinTargets
  /\ \E b \in Batches : data = b.entries /\ isHAR = b.har
  /\ requests = <<>>
  /\ pc = "idle"
  /\ idx = 1
  /\ outcome = Outcome("none", "return", "", NoArgs, NoValue)
  /\ previous = NoPrevious

\* new HTTPSnippet(data), up to the loop over the entries.  The constructor
\* runs to its end or to its throw without giving up control, so until then
\* only the loop's turns are enabled; pc is the constructor's position:
\* "idle" before the call, "constructing" in the loop at entry idx, "ready"
\* once it has returned, "raised" once it has thrown.
New ==
  /\ pc = "idle"
  /\ requests' = <<>>
  /\ idx' = 1
  /\ pc' = IF Len(data) = 0 THEN "ready" ELSE "constructing"
  /\ outcome' = Outcome("new", "return", "", NoArgs, NoValue)
  /\ UNCHANGED <<targets, data, isHAR, previous>>

\* one turn of the loop whose validation callback does not throw
\* a loop turn whose validation callback has not run when the loop moves
\* on: nothing is prepared or pushed in the turn
ConstructEntryDeferred ==
  /\ pc = "constructing"
  /\ ~CallbackThrows(ValidateRequest(Defaulted(data[idx])))
  /\ idx' = idx + 1
  /\ pc' = IF idx = Len(data) THEN "ready" ELSE "constructing"
  /\ outcome' = Outcome("construct", "return", "", NoArgs, NoValue)
  /\ UNCHANGED <<targets, data, isHAR, requests, previous>>

ConstructEntry ==
  /\ pc = "constructing"
  /\ LET d == Defaulted(data[idx])
         report == ValidateRequest(d)
         p == prepare(d)
     IN  /\ ~CallbackThrows(report)
         /\ requests' = Append(requests, p)
         /\ data' = [data EXCEPT ![idx] = WriteBack(data[idx], p, isHAR)]
  /\ idx' = idx + 1
  /\ pc' = IF idx = Len(data) THEN "ready" ELSE "constructing"
  /\ outcome' = Outcome("construct", "return", "", NoArgs, NoValue)
  /\ UNCHANGED <<targets, isHAR, previous>>

\* one turn of the loop whose validation callback throws: the constructor
\* is left with the error
ConstructRaise ==
  /\ pc = "constructing"
  /\ LET d == Defaulted(data[idx])
         report == ValidateRequest(d)
     IN  /\ CallbackThrows(report)
         /\ data' = [data EXCEPT ![idx] = WriteBack(data[idx], d, isHAR)]
         /\ outcome' = Outcome("construct", "raise", report.err, NoArgs, NoValue)
  /\ pc' = "raised"
  /\ UNCHANGED <<targets, isHAR, requests, idx, previous>>

Convert ==
  /\ pc = "ready"
  /\ \E target \in TargetArgs, client \in ClientArgs, opts \in OptsArgs :
       LET r == convert(targets, requests, target, client, opts)
       IN  outcome' = Outcome("convert", r.kind, r.error,
                              [target |-> target, client |-> client, opts |-> opts],
                              r.value)
  /\ UNCHANGED <<targets, data, isHAR, requests, pc, idx, previous>>

AddTarget ==
  /\ pc # "constructing"
  /\ \E target \in TargetInputs :
       LET err == AddTargetError(targets, target)
       IN  /\ targets' = addTarget(targets, target)
           /\ outcome' = Outcome("addTarget", IF err = "" THEN "return" ELSE "raise",
                                  err, NoArgs, NoValue)
  /\ UNCHANGED <<data, isHAR, requests, pc, idx, previous>>

AddTargetClient ==
  /\ pc # "constructing"
  /\ \E target \in TargetArgs, client \in ClientInputs :
       LET err == AddTargetClientError(targets, target, client)
       IN  /\ targets' = addTargetClient(targets, target, client)
           /\ outcome' = Outcome("addTargetClient",
                                  IF err = "" THEN "return" ELSE "raise",
                                  err, NoArgs, NoValue)
  /\ UNCHANGED <<data, isHAR, requests, pc, idx, previous>>

Next == New \/ ConstructEntry \/ ConstructRaise \/ Convert \/ AddTarget
        \/ AddTargetClient

Spec == Init /\ [][Next]_vars

\* new HTTPSnippet(data) once more, with the object an earlier constructor
\* call has returned from, up to the loop over the entries
NewAgain ==
  /\ pc = "ready"
  /\ previous' = [returned |-> TRUE, requests |-> requests]
  /\ requests' = <<>>
  /\ idx' = 1
  /\ pc' = IF Len(data) = 0 THEN "ready" ELSE "constructing"
  /\ outcome' = Outcome("new", "return", "", NoArgs, NoValue)
  /\ UNCHANGED <<targets, data, isHAR>>

\* the caller's inputs of RepeatSpec: the archives and single requests of
\* Spec, and every request of PrepareInputs in either shape
RepeatInputs ==
  Batches \cup {[har |-> h, entries |-> <<r>>] : h \in BOOLEAN, r \in PrepareInputs}

InitRepeat ==
  /\ targets = BuiltinTargets
  /\ \E b \in RepeatInputs : data = b.entries /\ isHAR = b.har
  /\ requests = <<>>
  /\ pc = "idle"
  /\ idx = 1
  /\ outcome = Outcome("none", "return", "", NoArgs, NoValue)
  /\ previous = NoPrevious

NextRepeat == New \/ ConstructEntry \/ ConstructRaise \/ NewAgain

\* the constructor called on the same input object again and again
RepeatSpec == InitRepeat /\ [][NextRepeat]_vars

\* the registry operations alone
NextRegistry == AddTarget \/ AddTargetClient

RegistrySpec == Init /\ [][NextRegistry]_vars

\* the constructor alone, on a single-entry archive drawn from PrepareInputs
InitPrepare ==
  /\ targets = BuiltinTargets
  /\ \E r \in PrepareInputs : data = <<r>>
  /\ isHAR = TRUE
  /\ requests = <<>>
  /\ pc = "idle"
  /\ idx = 1
  /\ outcome = Outcome("none", "return", "", NoArgs, NoValue)
  /\ previous = NoPrevious

NextPrepare == New \/ ConstructEntry \/ ConstructRaise

PrepareSpec == InitPrepare /\ [][NextPrepare]_vars

(***************************************************************************)
(* Properties.                                                             *)
(***************************************************************************)
Last(S) == CHOOSE i \in S : \A j \in S : j <= i

First(S) == CHOOSE i \in S : \A j \in S : i <= j

DistinctKeys(obj) ==
  \A i, j \in DOMAIN obj : obj[i].name = obj[j].name => i = j

\* the entries of obj whose key equals name when case is ignored
EntriesIgnoringCase(obj, name) ==
  {e \in DOMAIN obj : toLowerCase(obj[e].name) = toLowerCase(name)}

\* C1 as stated: for every header sequence and every httpVersion, after
\* prepare() headersObj holds, for each group of headers whose names are
\* equal ignoring case, exactly one entry, and its value is the value of the
\* last header of that group.
C1_OneEntryPerNameIgnoringCase ==
  \A n \in DOMAIN requests :
    LET r == requests[n]
    IN  \A h \in DOMAIN r.headers :
          LET group == {j \in DOMAIN r.headers :
                          toLowerCase(r.headers[j].name)
                            = toLowerCase(r.headers[h].name)}
              entries == EntriesIgnoringCase(r.headersObj, r.headers[h].name)
          IN  /\ Cardinality(entries) = 1
              /\ \A e \in entries :
                    r.headersObj[e].value = r.headers[Last(group)].value

MultipartValue == <<"multipart/form-data; boundary=", boundary>>

\* C1 amended: after prepare() headersObj holds, for each group of headers
\* whose names are equal (ignoring case when httpVersion starts with HTTP/2,
\* exactly otherwise), exactly one entry, keyed by that name (lowercased
\* under HTTP/2) and holding the value of the last header of the group, and
\* it holds no other entry; except that for a multipart body with params
\* the first entry whose key is content-type ignoring case, or a new
\* content-type entry when there is none, holds the multipart content type.
C1_HeadersObj ==
  \A n \in DOMAIN requests :
    LET r == requests[n]
        hs == r.headers
        http2 == r.httpVersion \in {"HTTP/2", "HTTP/2.0"}
        NameOf(h) == IF http2 THEN toLowerCase(hs[h].name) ELSE hs[h].name
        multipart == /\ r.postData.mimeType = "multipart/form-data"
                     /\ "params" \notin r.postData.absent
        ct == EntriesIgnoringCase(r.headersObj, "content-type")
        Overridden(e) == multipart /\ e = First(ct)
    IN  /\ DistinctKeys(r.headersObj)
        /\ \A h \in DOMAIN hs :
              LET group == {j \in DOMAIN hs : NameOf(j) = NameOf(h)}
              IN  \E e \in DOMAIN r.headersObj :
                    /\ r.headersObj[e].name = NameOf(h)
                    /\ r.headersObj[e].value =
                         IF Overridden(e) THEN MultipartValue
                         ELSE hs[Last(group)].value
        /\ \A e \in DOMAIN r.headersObj :
              \/ \E h \in DOMAIN hs : NameOf(h) = r.headersObj[e].name
              \/ /\ multipart
                 /\ r.headersObj[e] = Pair("content-type", MultipartValue)
        /\ multipart => ct # {} /\ r.headersObj[First(ct)].value = MultipartValue

\* a request under HTTP/2 whose headers repeat a name in two spellings
\* with two values has been prepared
C1_Witness ==
  \E n \in DOMAIN requests :
    LET r == requests[n]
    IN  /\ r.httpVersion = "HTTP/2"
        /\ \E i, j \in DOMAIN r.headers :
              /\ i < j
              /\ r.headers[i].name = "Content-Type"
              /\ r.headers[j].name = "content-type"
              /\ r.headers[i].value # r.headers[j].value
        /\ Len(r.headersObj) = 1
        /\ r.headersObj[1].value = r.headers[Len(r.headers)].value

\* C2: for every cookie sequence, after prepare() cookiesObj maps each
\* cookie name to the value of the first cookie with that name in sequence
\* order, and has no other keys.
C2_CookiesObj ==
  \A n \in DOMAIN requests :
    LET r == requests[n]
        cs == r.cookies
    IN  /\ DistinctKeys(r.cookiesObj)
        /\ \A c \in DOMAIN cs :
              LET same == {j \in DOMAIN cs : cs[j].name = cs[c].name}
              IN  \E e \in DOMAIN r.cookiesObj :
                    /\ r.cookiesObj[e].name = cs[c].name
                    /\ r.cookiesObj[e].value = cs[First(same)].value
        /\ \A e \in DOMAIN r.cookiesObj :
              \E c \in DOMAIN cs : cs[c].name = r.cookiesObj[e].name

\* a request whose cookies repeat a name with two values has been prepared
C2_Witness ==
  \E n \in DOMAIN requests :
    LET cs == requests[n].cookies
    IN  /\ \E i, j \in DOMAIN cs :
              i < j /\ cs[i].name = cs[j].name /\ cs[i].value # cs[j].value
        /\ Len(requests[n].cookiesObj) = 1

\* the values of the pairs named k, in order
ValuesOf(pairs, k) ==
  LET named == SelectSeq(pairs, LAMBDA p : p.name = k)
  IN  [i \in DOMAIN named |-> named[i].value]

\* C3: after prepare(), for every key k the final queryObj[k] is the value
\* embedded in the URL's own query component when the URL carries k,
\* otherwise the value of the last pair named k in the explicit queryString
\* sequence; keys present in neither are absent.
C3_QueryObj ==
  [][(pc = "constructing" /\ Len(requests') = Len(requests) + 1) =>
      LET before == data[idx]
          after == requests'[Len(requests')]
          embedded == before.url.search
          explicit == IF "queryString" \in before.absent THEN <<>>
                      ELSE before.queryString
          keys == {embedded[i].name : i \in DOMAIN embedded}
                  \cup {explicit[i].name : i \in DOMAIN explicit}
                  \cup {after.queryObj[i].name : i \in DOMAIN after.queryObj}
      IN  /\ DistinctKeys(after.queryObj)
          /\ \A k \in keys :
                IF ValuesOf(embedded, k) # <<>>
                  THEN /\ Has(after.queryObj, k)
                       /\ Get(after.queryObj, k) = ValuesOf(embedded, k)
                ELSE IF ValuesOf(explicit, k) # <<>>
                  THEN /\ Has(after.queryObj, k)
                       /\ Get(after.queryObj, k)
                            = <<ValuesOf(explicit, k)[Len(ValuesOf(explicit, k))]>>
                ELSE ~Has(after.queryObj, k)]_vars

\* a request with explicit a=1 and b=1 and a URL carrying a=2 has been
\* prepared: a is the URL's, b the explicit one
C3_Witness ==
  \E n \in DOMAIN requests :
    LET r == requests[n]
    IN  /\ r.queryString = <<Pair("a", "1"), Pair("b", "1")>>
        /\ r.fullUrl.search = <<Pair("a", "2"), Pair("b", "1")>>
        /\ Get(r.queryObj, "a") = <<"2">>

Kept(old, new) ==
  /\ new.info = old.info
  /\ \A i \in DOMAIN old.props :
        /\ Has(new.props, old.props[i].name)
        /\ Get(new.props, old.props[i].name) = old.props[i].value

\* C5: every addTarget or addTargetClient call that fails leaves the
\* registry exactly as it was before the call; a registered target key keeps
\* its first registration, whatever is called later.
C5_FailedRegistrationKeepsRegistry ==
  [][
    /\ (outcome'.op \in {"addTarget", "addTargetClient"}
        /\ outcome'.kind = "raise") => targets' = targets
    /\ \A i \in DOMAIN targets :
          /\ Has(targets', targets[i].name)
          /\ Kept(targets[i].value, Get(targets', targets[i].name))
  ]_vars

\* a second addTarget under the registered key t1 has just failed
C5_Witness ==
  /\ outcome.op = "addTarget"
  /\ outcome.kind = "raise"
  /\ outcome.error = "The supplied custom target already exists."
  /\ Has(targets, "t1")
  /\ Get(targets, "t1").info.default = "zz"

\* C6: in every reachable registry state no two registered targets have the
\* same info.key, and within each target no two registered clients have the
\* same info.key, so availableTargets() lists no key twice.
C6_UniqueKeys ==
  LET listed == availableTargets(targets)
  IN  /\ \A i, j \in DOMAIN listed :
            listed[i].info.key = listed[j].info.key => i = j
      /\ \A i \in DOMAIN listed :
            \A a, b \in DOMAIN listed[i].clients :
              (/\ listed[i].clients[a].listed
               /\ listed[i].clients[b].listed
               /\ listed[i].clients[a].info.key = listed[i].clients[b].info.key)
                => a = b

\* the generator convert is to apply: the function under the client key when
\* one is given and registered, otherwise the function under the default key
Resolvable(target, client) ==
  \/ client.type = "string" /\ IsFunction(Lookup(target, client.s))
  \/ IsFunction(Lookup(target, target.info.default))

\* C7: convert returns the failure indicator without raising when the
\* target key is not registered; when it is registered it applies a
\* generator to every request of the batch: the one registered under the
\* client key when that is given and registered for the target, otherwise
\* the one registered under the target's default client key.
C7_ConvertResolution ==
  outcome.op = "convert" =>
    LET a == outcome.args
    IN  IF ~Has(targets, a.target)
          THEN outcome.kind = "return" /\ outcome.value.kind = "false"
          ELSE LET t == Get(targets, a.target)
                   named == a.client.type = "string"
                            /\ IsFunction(Lookup(t, a.client.s))
                   chosen == IF named THEN Lookup(t, a.client.s)
                             ELSE Lookup(t, t.info.default)
               IN  /\ outcome.kind = "return"
                   /\ outcome.value.kind \in {"bare", "list"}
                   /\ IsFunction(chosen)
                   /\ Len(outcome.value.items) = Len(requests)
                   /\ \A i \in DOMAIN outcome.value.items :
                         outcome.value.items[i].fn = chosen.client.fnId

\* C8: for a registered target with a resolvable generator, convert returns
\* the generator's bare result when the batch holds exactly one request, and
\* otherwise a sequence with one result per request, result i being the
\* generator applied to request i.
C8_ResultShape ==
  (/\ outcome.op = "convert"
   /\ Has(targets, outcome.args.target)
   /\ Resolvable(Get(targets, outcome.args.target), outcome.args.client))
    => /\ outcome.kind = "return"
       /\ outcome.value.kind = IF Len(requests) = 1 THEN "bare" ELSE "list"
       /\ Len(outcome.value.items) = Len(requests)
       /\ \A i \in DOMAIN requests :
             /\ outcome.value.items[i].request = requests[i]
             /\ outcome.value.items[i].fn = outcome.value.items[1].fn
             /\ outcome.value.items[i].opts = outcome.value.items[1].opts

\* convert has returned a sequence for a batch of two different requests
C8_Witness ==
  /\ outcome.op = "convert"
  /\ outcome.value.kind = "list"
  /\ Len(requests) = 2
  /\ requests[1] # requests[2]
  /\ outcome.value.items[2].request = requests[2]

\* C9: when convert is called with two arguments, the second is passed to
\* the generator as options only if it is not a recognized client key of the
\* target; a recognized client key selects that client and is not handed to
\* the generator as its options.
C9_SecondArgument ==
  (/\ outcome.op = "convert"
   /\ outcome.args.opts = Undefined
   /\ outcome.value.kind \in {"bare", "list"})
    => LET a == outcome.args
           t == Get(targets, a.target)
           recognized == a.client.type = "string"
                         /\ IsFunction(Lookup(t, a.client.s))
       IN  \A i \in DOMAIN outcome.value.items :
             IF recognized
               THEN /\ outcome.value.items[i].fn = Lookup(t, a.client.s).client.fnId
                    /\ outcome.value.items[i].opts # a.client
               ELSE outcome.value.items[i].opts = a.client

\* C10: availableTargets() returns one element per registered target, no
\* element's clients list contains an entry whose key is "info" or "index",
\* and every other registered client appears in it as its metadata.
C10_AvailableTargets ==
  LET listed == availableTargets(targets)
  IN  /\ Len(listed) = Len(targets)
      /\ \A i \in DOMAIN listed :
            LET t == targets[i].value
            IN  /\ listed[i].info.key = targets[i].name
                /\ \A c \in DOMAIN listed[i].clients :
                      /\ listed[i].clients[c].listed
                      /\ listed[i].clients[c].info.key \notin {"info", "index"}
                /\ \A p \in DOMAIN t.props :
                      t.props[p].name \notin {"info", "index"} =>
                        \E c \in DOMAIN listed[i].clients :
                          listed[i].clients[c].info = t.props[p].value.info


\* the fields of a canonical request that a repeated construction is
\* compared on
Canonical(r) ==
  [url |-> r.url, fullUrl |-> r.fullUrl, queryObj |-> r.queryObj,
   headersObj |-> r.headersObj, allHeaders |-> r.allHeaders,
   postData |-> r.postData]

\* C11: when the constructor has returned a second time for the same input
\* object, archive-shaped or single-request-shaped, the canonical requests
\* it holds equal, entry by entry, those the earlier construction returned
\* with: same url, fullUrl, queryObj, headersObj, allHeaders and postData.
C11_RepeatableCanonicalization ==
  (pc = "ready" /\ previous.returned) =>
    /\ Len(requests) = Len(previous.requests)
    /\ \A i \in 1..Len(requests) :
         Canonical(requests[i]) = Canonical(previous.requests[i])

\* C11, single-request-shaped input only: the shallow copy the constructor
\* takes keeps the repeated construction equal to the earlier one.
C11_SingleShapedRepeats ==
  ~isHAR => C11_RepeatableCanonicalization


\* what prepare leaves of the request it was given: the fields it only reads
Source(r) ==
  [base |-> r.url.base, headers |-> r.headers, cookies |-> r.cookies,
   queryString |-> r.queryString]

\* requests[i] is the canonical request of input entry i: prepared, made of
\* entry i, and for an archive the entry's own request object
CanonicalOf(i) ==
  /\ requests[i].prepared
  /\ Source(requests[i]) = Source(data[i])
  /\ isHAR => requests[i] = data[i]

====
